---------------------------- MODULE Spec2Model ----------------------------
(***************************************************************************)
(* tap-prometheus: the incremental windowed aggregation and checkpointing  *)
(* loop of tap_prometheus/__init__.py (sync, query_metric, aggregate,      *)
(* get_bookmark), together with the sink it writes records and state       *)
(* blobs to, and the re-run of the tap from the last state blob.           *)
(***************************************************************************)
EXTENDS Integers, Sequences, FiniteSets, TLC

(***************************************************************************)
(* Program constants.                                                      *)
(***************************************************************************)
\* period_seconds of period 'day'
DaySeconds == 86400

\* the state is written after every PersistEvery-th record
PersistEvery == 100

(***************************************************************************)
(* Bounds of the model.                                                    *)
(***************************************************************************)
\* the largest number of whole days between a start date and a captured now
MaxDays == 101

\* the largest number of whole days in the runs without interruption
MaxLongDays == 250

\* the number of days of the end-to-end scenario
ScenarioDays == 3

(***************************************************************************)
(* DATE_FORMAT: datetime.utcfromtimestamp(t).strftime(DATE_FORMAT) and     *)
(* datetime.strptime(s, DATE_FORMAT).replace(tzinfo=UTC).timestamp().      *)
(* A formatted date is the record of its fields; the calendar is the       *)
(* proleptic Gregorian calendar of datetime.                               *)
(***************************************************************************)
CivilFromDays(z0) ==
    LET z   == z0 + 719468
        era == z \div 146097
        doe == z - era * 146097
        yoe == (doe - (doe \div 1460) + (doe \div 36524) - (doe \div 146096)) \div 365
        doy == doe - (365 * yoe + (yoe \div 4) - (yoe \div 100))
        mp  == (5 * doy + 2) \div 153
        d   == doy - ((153 * mp + 2) \div 5) + 1
        m   == IF mp < 10 THEN mp + 3 ELSE mp - 9
        y   == yoe + era * 400 + (IF m <= 2 THEN 1 ELSE 0)
    IN  [Y |-> y, m |-> m, d |-> d]

DaysFromCivil(y0, m, d) ==
    LET y   == IF m <= 2 THEN y0 - 1 ELSE y0
        era == y \div 400
        yoe == y - era * 400
        mp  == (m + 9) % 12
        doy == ((153 * mp + 2) \div 5) + d - 1
        doe == yoe * 365 + (yoe \div 4) - (yoe \div 100) + doy
    IN  era * 146097 + doe - 719468

\* datetime.utcfromtimestamp(t).strftime(DATE_FORMAT)
strftime(t) ==
    LET c   == CivilFromDays(t \div DaySeconds)
        sod == t % DaySeconds
    IN  [Y |-> c.Y, m |-> c.m, d |-> c.d,
         H |-> sod \div 3600, M |-> (sod % 3600) \div 60, S |-> sod % 60]

\* int(datetime.strptime(s, DATE_FORMAT).replace(tzinfo=pytz.UTC).timestamp())
strptime(s) ==
    DaysFromCivil(s.Y, s.m, s.d) * DaySeconds + s.H * 3600 + s.M * 60 + s.S


(***************************************************************************)
(* Configuration, the metrics source and the wall clock.                   *)
(***************************************************************************)
\* the start date of the configuration: 2024-01-01T00:00:00Z
StartDate == [Y |-> 2024, m |-> 1, d |-> 1, H |-> 0, M |-> 0, S |-> 0]

\* the start date as unix time
Jan2024 == strptime(StartDate)

MetricSpec(name, aggregation, period) ==
    [name |-> name, query |-> name, aggregation |-> aggregation,
     period |-> period, step |-> 60]

Config(start, metrics) == [start_date |-> strftime(start), metrics |-> metrics]

\* Context.state of a first run: no bookmark at all
NoBookmarks == [n \in {} |-> strftime(0)]

\* what client.range_query may do: raise, or return a list of series of values
Response(error, timeseries) == [error |-> error, timeseries |-> timeseries]

Constant10 == Response(FALSE, << <<10, 10, 10>> >>)

\* range_query raises (network or API failure)
QueryError == Response(TRUE, <<>>)

\* range_query returns no series: timeseries[0] raises IndexError
NoSeries == Response(FALSE, <<>>)

\* range_query returns one series that has no sample
NoSamples == Response(FALSE, << <<>> >>)

\* range_query returns two series; the first has the samples 1, 2, 6
Varied == Response(FALSE, << <<2, 1, 6>>, <<50>> >>)

\* no range query made yet
NoResponse == Response(FALSE, <<>>)

(***************************************************************************)
(* The state of the tap, of the sink and of the environment.               *)
(***************************************************************************)
VARIABLES
    config,             \* Context.config: start_date and the list of metrics
    input_state,        \* the state the first run was started with
    source,             \* the responses client.range_query may give
    nows,               \* the times the wall clock may show
    clock,              \* the last time read from the wall clock
    pc,                 \* the position of the running process
    mi,                 \* the index of the metric sync() is at
    state,              \* Context.state: the bookmark of every metric name
    new_counts,         \* Context.new_counts[stream_name]
    extraction_time,    \* current_unixtime of the metric being processed
    period_seconds,     \* period_seconds of the metric being processed
    iterator_unixtime,  \* the start of the window the loop is at
    data,               \* the record built for the window, not yet written
    ts_data,            \* what the last range query of this metric gave
    records,            \* the sink: every record written, by any run
    persisted,          \* the sink: the last state blob written
    blobs,              \* the sink: every state blob written
    run_keys,           \* the keys of the records this run wrote
    prior,              \* how the previous run ended
    first_window,       \* the start of the first window of this metric
    n_queries,          \* range queries issued for this metric in this run
    n_records,          \* records written for this metric in this run
    n_persists,         \* states written while this metric was processed
    unpersisted         \* records written since the last state was written

vars == <<config, input_state, source, nows, clock, pc, mi, state, new_counts,
          extraction_time, period_seconds, iterator_unixtime, data, ts_data,
          records, persisted, blobs, run_keys, prior, first_window,
          n_queries, n_records, n_persists, unpersisted>>

env == <<config, input_state, source, nows>>
locals == <<extraction_time, period_seconds, iterator_unixtime, data, ts_data>>
sink == <<records, persisted, blobs>>
counters == <<first_window, n_queries, n_records, n_persists>>

(***************************************************************************)
(* singer.get_bookmark / get_bookmark / singer.write_bookmark.             *)
(***************************************************************************)
\* a slip: the stored bookmark is not looked at
StartDateOnly(st, cfg, name) == cfg.start_date

\* get_bookmark(name): the stored bookmark, or config['start_date']
get_bookmark(st, cfg, name) ==
    IF name \in DOMAIN st THEN st[name] ELSE cfg.start_date

\* a slip: the state is replaced by the bookmark of the one metric
BookmarkReplacesState(st, name, value) == [n \in {name} |-> value]

\* singer.write_bookmark(Context.state, name, 'start_date', value)
write_bookmark(st, name, value) ==
    [n \in DOMAIN st \cup {name} |-> IF n = name THEN value ELSE st[n]]

\* the checkpoint of a metric in a state map, as unix time
Checkpoint(st, cfg, name) == strptime(get_bookmark(st, cfg, name))

(***************************************************************************)
(* aggregate(aggregation, dataframe): values are the float values of the   *)
(* first series.  A float is the fraction n/d in lowest terms; max, min    *)
(* and mean of an empty column are NaN (pandas), not an error.             *)
(***************************************************************************)
RECURSIVE GCD(_, _)
GCD(a, b) == IF b = 0 THEN a ELSE GCD(b, a % b)

Float(n, d) ==
    LET g == GCD(IF n < 0 THEN -n ELSE n, d)
    IN  [kind |-> "float", n |-> n \div g, d |-> d \div g]

NaN == [kind |-> "nan", n |-> 0, d |-> 0]

\* raise Exception("Aggregation method not implemented: ...")
Raised == [kind |-> "raise", n |-> 0, d |-> 0]

RECURSIVE SeqSum(_)
SeqSum(s) == IF s = <<>> THEN 0 ELSE Head(s) + SeqSum(Tail(s))

SeqMax(s) == CHOOSE v \in {s[i] : i \in DOMAIN s} : \A i \in DOMAIN s : s[i] <= v
SeqMin(s) == CHOOSE v \in {s[i] : i \in DOMAIN s} : \A i \in DOMAIN s : v <= s[i]

aggregate(aggregation, values) ==
    IF aggregation = "max"
    THEN (IF values = <<>> THEN NaN ELSE Float(SeqMax(values), 1))
    ELSE IF aggregation = "min"
    THEN (IF values = <<>> THEN NaN ELSE Float(SeqMin(values), 1))
    ELSE IF aggregation = "avg"
    THEN (IF values = <<>> THEN NaN ELSE Float(SeqSum(values), Len(values)))
    ELSE Raised

(***************************************************************************)
(* The key of a record: key_properties ['date', 'metric', 'aggregation'].  *)
(***************************************************************************)
KeyOf(r) == <<r.date, r.metric, r.aggregation>>

Keys(rs) == {KeyOf(r) : r \in rs}

Metric == config.metrics[mi]

\* no record built
NoData == [date |-> 0, metric |-> "", aggregation |-> "", value |-> NaN,
           time_extracted |-> 0]

(***************************************************************************)
(* The state after main() has set Context up and before sync() runs.       *)
(***************************************************************************)
InitWith(configs, input_states, sources, nowsets) ==
    /\ config \in configs
    /\ input_state \in input_states
    /\ source \in sources
    /\ nows \in nowsets
    /\ clock = 0
    /\ pc = "sync"
    /\ mi = 1
    /\ state = input_state
    /\ new_counts = 0
    /\ extraction_time = 0
    /\ period_seconds = 0
    /\ iterator_unixtime = 0
    /\ data = NoData
    /\ ts_data = NoResponse
    /\ records = {}
    /\ persisted = input_state
    /\ blobs = {}
    /\ run_keys = {}
    /\ prior = "none"
    /\ first_window = 0
    /\ n_queries = 0
    /\ n_records = 0
    /\ n_persists = 0
    /\ unpersisted = 0

(***************************************************************************)
(* sync(client), lines 99-104: write the schemas, reset the counts.        *)
(***************************************************************************)
SyncStart ==
    /\ pc = "sync"
    /\ new_counts' = 0
    /\ mi' = 1
    /\ pc' = IF config.metrics = <<>> THEN "done" ELSE "metric"
    /\ UNCHANGED <<env, clock, state, locals, sink, run_keys, prior,
                   counters, unpersisted>>

(***************************************************************************)
(* query_metric, lines 120-135: resolve the bookmark, capture now, map     *)
(* the period to seconds (or raise), set the iterator.                     *)
(***************************************************************************)
PeriodSeconds(period) == IF period = "day" THEN DaySeconds ELSE 0

\* a slip: an unknown period falls through instead of raising
PeriodNotChecked(period) == TRUE

\* lines 130-133: any period but 'day' raises
PeriodSupported(period) == period = "day"

StartMetric ==
    /\ pc = "metric"
    /\ \E t \in nows :
        /\ t >= clock
        /\ clock' = t
        /\ extraction_time' = t
    /\ LET bookmark_unixtime == strptime(get_bookmark(state, config, Metric.name))
       IN  /\ iterator_unixtime' = bookmark_unixtime
           /\ first_window' = bookmark_unixtime
    /\ period_seconds' = PeriodSeconds(Metric.period)
    /\ pc' = IF PeriodSupported(Metric.period) THEN "loop" ELSE "aborted"
    /\ n_queries' = 0
    /\ n_records' = 0
    /\ n_persists' = 0
    /\ data' = NoData
    /\ ts_data' = NoResponse
    /\ UNCHANGED <<env, mi, state, new_counts, sink, run_keys, prior,
                   unpersisted>>

\* a slip: a window that ends exactly at now is left out
LoopConditionStrict(iterator, period, current) == iterator + period < current

\* a slip: a window that has started is taken, complete or not
LoopConditionPartial(iterator, period, current) == iterator <= current

(***************************************************************************)
(* The loop condition of line 137.                                         *)
(***************************************************************************)
LoopCondition(iterator, period, current) == iterator + period <= current

(***************************************************************************)
(* Lines 137-159: the loop condition holds; range_query, timeseries[0],    *)
(* aggregate, and the record of the window.                                *)
(***************************************************************************)
\* a slip: the record carries the wall clock time of its write
TimeOfWrite(captured, wall_clock) == wall_clock

\* line 164: time_extracted=extraction_time, the time captured at line 127
TimeExtracted(captured, wall_clock) == captured

\* failure_pc: where the process is after range_query, timeseries[0] or
\* aggregate has raised
QueryStep(failure_pc) ==
    /\ pc = "loop"
    /\ LoopCondition(iterator_unixtime, period_seconds, extraction_time)
    /\ n_queries' = n_queries + 1
    /\ \E resp \in source :
        /\ ts_data' = resp
        /\ IF resp.error \/ resp.timeseries = <<>>
           THEN /\ pc' = failure_pc
                /\ data' = NoData
           ELSE LET value == aggregate(Metric.aggregation, resp.timeseries[1])
                IN  IF value = Raised
                    THEN /\ pc' = failure_pc
                         /\ data' = NoData
                    ELSE /\ pc' = "write_record"
                         /\ data' = [date |-> iterator_unixtime,
                                     metric |-> Metric.name,
                                     aggregation |-> Metric.aggregation,
                                     value |-> value,
                                     time_extracted |->
                                         TimeExtracted(extraction_time, clock)]
    /\ UNCHANGED <<env, clock, mi, state, new_counts, extraction_time,
                   period_seconds, iterator_unixtime, sink, run_keys,
                   prior, first_window, n_records, n_persists, unpersisted>>

\* a slip: the exception is swallowed and the loop goes on with the window
QueryWindowRetries == QueryStep("loop")

\* the exception unwinds to the top-level handler: the run is over
QueryWindow == QueryStep("aborted")

(***************************************************************************)
(* Lines 161-167: singer.write_record and the count of new records.        *)
(***************************************************************************)
WriteRecord ==
    /\ pc = "write_record"
    /\ records' = records \cup {data}
    /\ run_keys' = run_keys \cup {KeyOf(data)}
    /\ new_counts' = new_counts + 1
    /\ n_records' = n_records + 1
    /\ unpersisted' = unpersisted + 1
    /\ pc' = "write_bookmark"
    /\ UNCHANGED <<env, clock, mi, state, locals, persisted, blobs, prior,
                   first_window, n_queries, n_persists>>

(***************************************************************************)
(* Lines 169-174: singer.write_bookmark with the end of the window.        *)
(***************************************************************************)
\* a slip: the bookmark skips one window
BookmarkSkipsWindow(iterator, period) == strftime(iterator + 2 * period)

\* a slip: the period is subtracted
BookmarkGoesBack(iterator, period) == strftime(iterator - period)

\* a slip: the bookmark is the start of the window
BookmarkIsWindowStart(iterator, period) == strftime(iterator)

\* line 173: the bookmark written is the end of the window, formatted
BookmarkValue(iterator, period) == strftime(iterator + period)

WriteBookmark ==
    /\ pc = "write_bookmark"
    /\ state' = write_bookmark(state, Metric.name,
                               BookmarkValue(iterator_unixtime, period_seconds))
    /\ pc' = "persist"
    /\ UNCHANGED <<env, clock, mi, new_counts, locals, sink, run_keys,
                   prior, counters, unpersisted>>

(***************************************************************************)
(* Lines 176-180: write the state after every 100 records, then move the   *)
(* iterator to the next window.                                            *)
(***************************************************************************)
\* a slip: the state is written once, at the first 100 records only
PersistOnce(count) == count = PersistEvery

\* a slip: the state is written one record late
PersistLate(count) == (count % PersistEvery) = 1

PersistDue(count) == (count % PersistEvery) = 0

\* a slip: the iterator is not moved to the next window
IteratorStays(iterator, period) == iterator

\* line 180: iterator_unixtime += period_seconds
NextIterator(iterator, period) == iterator + period

PersistAndAdvance ==
    /\ pc = "persist"
    /\ IF PersistDue(new_counts)
       THEN /\ persisted' = state
            /\ blobs' = blobs \cup {state}
            /\ n_persists' = n_persists + 1
            /\ unpersisted' = 0
       ELSE UNCHANGED <<persisted, blobs, n_persists, unpersisted>>
    /\ iterator_unixtime' = NextIterator(iterator_unixtime, period_seconds)
    /\ data' = NoData
    /\ pc' = "loop"
    /\ UNCHANGED <<env, clock, mi, state, new_counts, extraction_time,
                   period_seconds, ts_data, records, run_keys, prior,
                   first_window, n_queries, n_records>>

(***************************************************************************)
(* Line 182 and the for loop of sync(): the loop condition fails, the      *)
(* state is written, sync() goes to the next metric or returns.            *)
(***************************************************************************)
FinishMetric ==
    /\ pc = "loop"
    /\ ~LoopCondition(iterator_unixtime, period_seconds, extraction_time)
    /\ persisted' = state
    /\ blobs' = blobs \cup {state}
    /\ n_persists' = n_persists + 1
    /\ unpersisted' = 0
    /\ IF mi < Len(config.metrics)
       THEN /\ mi' = mi + 1
            /\ pc' = "metric"
       ELSE /\ mi' = mi
            /\ pc' = "done"
    /\ UNCHANGED <<env, clock, state, new_counts, locals, records,
                   run_keys, prior, first_window, n_queries, n_records>>

(***************************************************************************)
(* The process ends where it is (it completed, it raised, or it was        *)
(* killed) and the tap is run again with the last state blob the sink got  *)
(* (the state it was started with when it got none).                       *)
(***************************************************************************)
Restart ==
    /\ prior' = IF pc = "done" THEN "completed"
                ELSE IF pc = "aborted" THEN "raised" ELSE "killed"
    /\ state' = persisted
    /\ pc' = "sync"
    /\ mi' = 1
    /\ new_counts' = 0
    /\ extraction_time' = 0
    /\ period_seconds' = 0
    /\ iterator_unixtime' = 0
    /\ data' = NoData
    /\ ts_data' = NoResponse
    /\ run_keys' = {}
    /\ first_window' = 0
    /\ n_queries' = 0
    /\ n_records' = 0
    /\ n_persists' = 0
    /\ unpersisted' = 0
    /\ UNCHANGED <<env, clock, sink>>

(***************************************************************************)
(* Wall-clock time passes while the process runs.                          *)
(***************************************************************************)
Tick ==
    /\ pc \notin {"done", "aborted"}
    /\ \E t \in nows :
        /\ t > clock
        /\ clock' = t
    /\ UNCHANGED <<env, pc, mi, state, new_counts, locals, sink, run_keys,
                   prior, counters, unpersisted>>

(***************************************************************************)
(* Specifications.                                                         *)
(*  Spec:     one metric; the tap may be stopped anywhere and run again.   *)
(*  SpecSync: one run of sync() over one or two metrics, not interrupted.  *)
(*  SpecSyncFair: SpecSync, where the running process keeps taking steps.  *)
(*  SpecEnv:  one run over metric specs that may be unsupported, with a    *)
(*            source that may fail and a clock that moves during the run.  *)
(***************************************************************************)
Cpu == MetricSpec("cpu", "avg", "day")
Mem == MetricSpec("mem", "max", "day")

\* a bookmark left by an earlier tap, neither day-aligned nor the start date
EarlierBookmark == [n \in {"cpu"} |-> strftime(Jan2024 - DaySeconds - 3600)]

Init ==
    InitWith({Config(Jan2024, <<Cpu>>)},
             {NoBookmarks, EarlierBookmark},
             {{Constant10}},
             {{Jan2024 + DaySeconds - 1,
               Jan2024 + ScenarioDays * DaySeconds,
               Jan2024 + MaxDays * DaySeconds + 5}})

Next ==
    \/ SyncStart
    \/ StartMetric
    \/ QueryWindow
    \/ WriteRecord
    \/ WriteBookmark
    \/ PersistAndAdvance
    \/ FinishMetric
    \/ Restart

Spec == Init /\ [][Next]_vars

InitSync ==
    InitWith({Config(Jan2024, <<Cpu>>), Config(Jan2024, <<Cpu, Mem>>),
              Config(Jan2024, <<Mem, Cpu>>)},
             {NoBookmarks, EarlierBookmark},
             {{Constant10}},
             {{Jan2024 - 2 * DaySeconds,
               Jan2024 + DaySeconds - 1,
               Jan2024 + ScenarioDays * DaySeconds,
               Jan2024 + MaxLongDays * DaySeconds}})

NextSync ==
    \/ SyncStart
    \/ StartMetric
    \/ QueryWindow
    \/ WriteRecord
    \/ WriteBookmark
    \/ PersistAndAdvance
    \/ FinishMetric

SpecSync == InitSync /\ [][NextSync]_vars

\* single-threaded and blocking: a process that can take a step takes it
SpecSyncFair == SpecSync /\ WF_vars(NextSync)

CpuHourly == MetricSpec("cpu", "avg", "hour")
CpuSum == MetricSpec("cpu", "sum", "day")
MemMin == MetricSpec("mem", "min", "day")

InitEnv ==
    InitWith({Config(Jan2024, <<Cpu, MemMin>>), Config(Jan2024, <<MemMin>>),
              Config(Jan2024, <<CpuHourly, Mem>>), Config(Jan2024, <<Mem, CpuHourly>>),
              Config(Jan2024, <<CpuSum, Mem>>)},
             {NoBookmarks, EarlierBookmark},
             {{Constant10, Varied}, {Constant10, QueryError, NoSeries, NoSamples}},
             {{Jan2024 + DaySeconds - 1,
               Jan2024 + (ScenarioDays - 1) * DaySeconds,
               Jan2024 + ScenarioDays * DaySeconds}})

NextEnv ==
    \/ SyncStart
    \/ StartMetric
    \/ QueryWindow
    \/ WriteRecord
    \/ WriteBookmark
    \/ PersistAndAdvance
    \/ FinishMetric
    \/ Tick

SpecEnv == InitEnv /\ [][NextEnv]_vars

(***************************************************************************)
(* Vocabulary of the properties.                                           *)
(***************************************************************************)
ConfigNames == {config.metrics[i].name : i \in DOMAIN config.metrics}

\* the checkpoint a metric had before the first run
Orig(name) == Checkpoint(input_state, config, name)

\* the window starts the sink has a record of, for a metric
Starts(name) == {r.date : r \in {x \in records : x.metric = name}}

\* the window starts of one uninterrupted run from start up to now
WindowStarts(start, period, now) ==
    {start + k * period : k \in 0 .. (((now - start) \div period) - 1)}

\* a window of the current metric is being processed
InWindow == pc \in {"write_record", "write_bookmark", "persist"}

\* the window loop of a metric of this run has just run to completion
LoopFinished == pc \in {"metric", "done"} /\ n_persists > 0

\* the metric whose loop has just run to completion
FinishedMetric == config.metrics[IF pc = "done" THEN mi ELSE mi - 1]

(***************************************************************************)
(* C1: across any number of runs stopped anywhere and resumed from the     *)
(* last persisted state, the window starts emitted for a metric are        *)
(* window starts of one uninterrupted run from the original checkpoint up  *)
(* to the last captured now, and once a run completes they are exactly     *)
(* the window starts of the uninterrupted run up to that run's now.        *)
(***************************************************************************)
NoGapsNoExtras ==
    \A m \in ConfigNames :
        /\ Starts(m) \subseteq WindowStarts(Orig(m), DaySeconds, clock)
        /\ pc = "done" =>
             Starts(m) = WindowStarts(Orig(m), DaySeconds, extraction_time)

\* a run resumed after a kill completes, some window was written by two runs
ResumedRunCompleted ==
    /\ pc = "done"
    /\ prior = "killed"
    /\ Cardinality(records) > Cardinality(Starts("cpu"))
    /\ Cardinality(Starts("cpu")) > PersistEvery

(***************************************************************************)
(* C2 as claimed: no record is written with the key of a record the sink   *)
(* already has, also when a run is stopped and the tap is run again.       *)
(***************************************************************************)
NoKeyWrittenTwice ==
    pc = "write_record" => KeyOf(data) \notin Keys(records)

(***************************************************************************)
(* C2 as amended: within one run no key is written twice, and no run       *)
(* writes a record of a window that starts before the last persisted       *)
(* checkpoint of its metric; only the windows from that checkpoint on can  *)
(* be written again by a run that resumes after a stop.                    *)
(***************************************************************************)
KeyWrittenOncePerRun ==
    pc = "write_record" =>
        /\ KeyOf(data) \notin run_keys
        /\ data.date >= Checkpoint(persisted, config, data.metric)

\* a resumed run is about to write again a record the stopped run wrote
RewritesUnpersistedWindow ==
    /\ pc = "write_record"
    /\ prior = "killed"
    /\ KeyOf(data) \in Keys(records)
    /\ new_counts > 0

(***************************************************************************)
(* C3: the in-memory checkpoint of a metric and every persisted state      *)
(* blob have a record in the sink for every window from the original       *)
(* checkpoint of the metric up to the checkpoint they hold.                *)
(***************************************************************************)
CheckpointBehindRecords ==
    \A m \in ConfigNames :
        \A st \in blobs \cup {state, persisted} :
            WindowStarts(Orig(m), DaySeconds, Checkpoint(st, config, m))
                \subseteq Starts(m)

\* the bookmark has moved past a written record, ahead of the persisted blob
BookmarkAheadOfPersisted ==
    /\ pc = "persist"
    /\ blobs # {}
    /\ Checkpoint(state, config, "cpu") > Checkpoint(persisted, config, "cpu")
    /\ Checkpoint(persisted, config, "cpu") > Orig("cpu")

(***************************************************************************)
(* C4 as claimed: no step, and no re-run, gives a metric an in-memory or   *)
(* a persisted checkpoint smaller than the one it had.                     *)
(***************************************************************************)
CheckpointNeverDecreases ==
    [][\A m \in ConfigNames :
          /\ Checkpoint(state', config, m) >= Checkpoint(state, config, m)
          /\ Checkpoint(persisted', config, m) >= Checkpoint(persisted, config, m)
      ]_vars

(***************************************************************************)
(* C4 as amended: the persisted checkpoint of a metric never decreases,    *)
(* across steps and across runs; the in-memory checkpoint never decreases  *)
(* within a run and is never below the persisted one; a re-run starts      *)
(* with the persisted checkpoint, which may be below the in-memory         *)
(* checkpoint the stopped run had reached.                                 *)
(***************************************************************************)
PersistedCheckpointNeverDecreases ==
    [][\A m \in ConfigNames :
          /\ Checkpoint(persisted', config, m) >= Checkpoint(persisted, config, m)
          /\ Checkpoint(state', config, m) >= Checkpoint(persisted, config, m)
          /\ pc' # "sync" =>
               Checkpoint(state', config, m) >= Checkpoint(state, config, m)
          /\ pc' = "sync" => state' = persisted
      ]_vars

\* a re-run has started below the in-memory checkpoint of the stopped run
RerunStartedFromPersisted ==
    /\ pc = "write_bookmark"
    /\ prior = "killed"
    /\ blobs # {}
    /\ Cardinality(Starts("cpu")) > n_records

(***************************************************************************)
(* C5: every window the loop queries and emits is complete (its end is at  *)
(* most now), the first starts at the checkpoint of the metric, each       *)
(* later one starts where the previous one ended, and no window is         *)
(* processed when the checkpoint is at least now - period + 1.             *)
(***************************************************************************)
WindowsCompleteAndContiguous ==
    /\ InWindow =>
         /\ data.date + period_seconds <= extraction_time
         /\ data.date = iterator_unixtime
         /\ data.date = first_window + (n_queries - 1) * period_seconds
         /\ (pc = "write_record" /\ n_queries > 1) =>
              data.date = strptime(state[Metric.name])
         /\ (pc = "write_record" /\ n_queries = 1) =>
              data.date = Checkpoint(state, config, Metric.name)
    /\ (pc \in {"loop", "done"} \/ InWindow) =>
         (first_window >= extraction_time - period_seconds + 1 => n_queries = 0)

\* the third window of a metric, with a later one to come
ThirdWindowInProgress ==
    /\ pc = "write_record"
    /\ n_queries = 3
    /\ data.date + 2 * period_seconds <= extraction_time

(***************************************************************************)
(* C6 as claimed: a loop that runs to completion processes exactly         *)
(* floor((now - checkpoint) / period) windows, also when now is earlier    *)
(* than the checkpoint.                                                    *)
(***************************************************************************)
WindowCountIsFloor ==
    LoopFinished =>
        n_queries = (extraction_time - first_window) \div period_seconds

(***************************************************************************)
(* C6 as amended: a loop that runs to completion processes exactly         *)
(* floor((now - checkpoint) / period) windows when now is not earlier      *)
(* than the checkpoint, and no window when it is.                          *)
(***************************************************************************)
WindowCountIsFloorOrZero ==
    LoopFinished =>
        /\ n_records = n_queries
        /\ n_queries = IF extraction_time >= first_window
                       THEN (extraction_time - first_window) \div period_seconds
                       ELSE 0

\* a loop has processed all its windows, now not a whole number of periods on
LoopFinishedWithWindows ==
    /\ LoopFinished
    /\ n_queries > PersistEvery
    /\ (extraction_time - first_window) % period_seconds # 0

(***************************************************************************)
(* C7: when a run has completed, now is less than one period past the      *)
(* persisted checkpoint C of the metric; and a re-run from the persisted   *)
(* state of a completed run, for every now less than C + period, issues    *)
(* no query, writes no record, and leaves the in-memory and the persisted  *)
(* checkpoint at C.                                                        *)
(***************************************************************************)
IdempotentResumption ==
    /\ pc = "done" =>
         extraction_time <
             Checkpoint(persisted, config, Metric.name) + period_seconds
    /\ (/\ prior = "completed"
        /\ (pc \in {"loop", "done"} \/ InWindow)
        /\ extraction_time < first_window + period_seconds) =>
         /\ n_queries = 0
         /\ n_records = 0
         /\ run_keys = {}
         /\ pc \in {"loop", "done"}
         /\ Checkpoint(state, config, Metric.name) = first_window
         /\ Checkpoint(persisted, config, Metric.name) = first_window

\* a run completed with records, and the re-run from its state has completed
RerunOfCompletedRunDone ==
    /\ prior = "completed"
    /\ pc = "done"
    /\ records # {}
    /\ extraction_time < first_window + period_seconds
    /\ n_persists = 1

(***************************************************************************)
(* C8: for every metric of a run the state is written exactly              *)
(* after the 100th, 200th, ... record of that metric, counted from the     *)
(* metric's own first record, and once more when its loop terminates.      *)
(***************************************************************************)
PersistCadencePerMetric ==
    /\ pc = "loop" => unpersisted = n_records % PersistEvery
    /\ LoopFinished => n_persists = (n_records \div PersistEvery) + 1

(***************************************************************************)
(* The cadence the code has: line 177 counts the records of the run, not   *)
(* of the metric.  The state is written after every record that brings     *)
(* Context.new_counts (over all metrics so far) to a multiple of 100, and  *)
(* once more when the loop of each metric terminates; only for the first   *)
(* metric of a run is this after its own 100th, 200th, ... record.         *)
(***************************************************************************)
\* the periodic writes of the state during the records of the current metric
PeriodicPersists ==
    (new_counts \div PersistEvery) - ((new_counts - n_records) \div PersistEvery)

PersistCadencePerRun ==
    /\ pc = "loop" =>
         /\ n_persists = PeriodicPersists
         /\ unpersisted = IF n_persists = 0 THEN n_records
                          ELSE new_counts % PersistEvery
    /\ LoopFinished =>
         /\ n_persists = PeriodicPersists + 1
         /\ unpersisted = 0
    /\ (LoopFinished /\ FinishedMetric = config.metrics[1]) =>
         /\ new_counts = n_records
         /\ n_persists = (n_records \div PersistEvery) + 1

\* a second metric has finished, its periodic writes not at its own 100th
SecondMetricPersists ==
    /\ LoopFinished
    /\ Len(config.metrics) = 2
    /\ pc = "done"
    /\ n_records > PersistEvery
    /\ new_counts > n_records
    /\ n_persists # (n_records \div PersistEvery) + 1

(***************************************************************************)
(* C9: at most 100 records have been written to the sink since the last    *)
(* state was written (or since the run started), for any number of         *)
(* metrics.                                                                *)
(***************************************************************************)
UnpersistedAtMostN == unpersisted <= PersistEvery

\* the 100th record since the last write of the state, in a second metric
HundredUnpersisted ==
    /\ unpersisted = PersistEvery
    /\ pc = "persist"
    /\ mi = 2

(***************************************************************************)
(* C10: one metric, no prior bookmark, start date S, period day, a source  *)
(* that always returns a series, now = S + k days: the completed run has   *)
(* written exactly the k records of the days S, ..., S + (k-1) days, each  *)
(* with the configured metric name and aggregation, and the last           *)
(* persisted checkpoint is S + k days.                                     *)
(***************************************************************************)
EndToEnd ==
    (/\ pc = "done"
     /\ config = Config(Jan2024, <<Cpu>>)
     /\ input_state = NoBookmarks
     /\ extraction_time >= Jan2024
     /\ (extraction_time - Jan2024) % DaySeconds = 0) =>
        LET k == (extraction_time - Jan2024) \div DaySeconds
        IN  /\ records = {[date |-> Jan2024 + i * DaySeconds,
                           metric |-> "cpu",
                           aggregation |-> "avg",
                           value |-> Float(10, 1),
                           time_extracted |-> extraction_time] : i \in 0 .. (k - 1)}
            /\ Cardinality(records) = k
            /\ new_counts = k
            /\ persisted = [n \in {"cpu"} |-> strftime(Jan2024 + k * DaySeconds)]
            /\ k = 3 => persisted["cpu"] =
                 [Y |-> 2024, m |-> 1, d |-> 4, H |-> 0, M |-> 0, S |-> 0]

\* the scenario has run to its end
ScenarioDone ==
    /\ pc = "done"
    /\ config = Config(Jan2024, <<Cpu>>)
    /\ input_state = NoBookmarks
    /\ extraction_time = Jan2024 + ScenarioDays * DaySeconds
    /\ Cardinality(records) = ScenarioDays

(***************************************************************************)
(* C11: a metric whose period is not 'day' ends the run when it is         *)
(* reached: no range query is issued and no record written for it, its     *)
(* checkpoint and the persisted state are as they were when it was         *)
(* reached, and no step follows (no later metric is processed).            *)
(***************************************************************************)
UnsupportedPeriodAborts ==
    /\ []((pc \notin {"sync", "metric"} /\ Metric.period # "day") =>
            /\ pc = "aborted"
            /\ n_queries = 0
            /\ n_records = 0
            /\ n_persists = 0
            /\ ts_data = NoResponse
            /\ Starts(Metric.name) = {}
            /\ Checkpoint(state, config, Metric.name) = first_window
            /\ Checkpoint(state, config, Metric.name) = Orig(Metric.name))
    /\ [][pc # "aborted"]_vars

\* an hourly metric with complete windows due has ended the run, one metric left
HourlyMetricAborted ==
    /\ pc = "aborted"
    /\ Metric.period = "hour"
    /\ mi = 1
    /\ Len(config.metrics) = 2
    /\ first_window + DaySeconds <= extraction_time

(***************************************************************************)
(* C12 as claimed: a metric whose aggregation is not min, max or avg ends  *)
(* the run as soon as it is reached, whatever its checkpoint and now: no   *)
(* range query is issued for it, its loop never finishes, and the run      *)
(* neither goes on to a later metric nor completes.                        *)
(***************************************************************************)
Supported == {"min", "max", "avg"}

UnsupportedAggregationAborts ==
    \A i \in DOMAIN config.metrics :
        config.metrics[i].aggregation \notin Supported =>
            /\ mi <= i
            /\ pc # "done"
            /\ (mi = i /\ pc \notin {"sync", "metric"}) =>
                 /\ pc \in {"loop", "aborted"}
                 /\ n_queries = 0

(***************************************************************************)
(* C13: when the range query of a window raises or returns no series, the  *)
(* run is over at that window: no record of the window is written, the     *)
(* in-memory checkpoint of the metric is the start of the window, the      *)
(* state is not written, and no step follows (no retry, no later metric).  *)
(***************************************************************************)
QueryFailureAborts ==
    /\ []((n_queries > 0 /\ (ts_data.error \/ ts_data.timeseries = <<>>)) =>
            /\ pc = "aborted"
            /\ data = NoData
            /\ iterator_unixtime \notin Starts(Metric.name)
            /\ Checkpoint(state, config, Metric.name) = iterator_unixtime
            /\ iterator_unixtime = first_window + n_records * period_seconds
            /\ n_records = n_queries - 1
            /\ n_persists = PeriodicPersists)
    /\ [][pc # "aborted"]_vars

\* the second window of a first metric got no series; one metric is left
SecondWindowGotNoSeries ==
    /\ pc = "aborted"
    /\ ts_data = NoSeries
    /\ n_queries = 2
    /\ n_records = 1
    /\ mi = 1
    /\ Len(config.metrics) = 2

(***************************************************************************)
(* C14 as claimed: a series without samples never yields a value: the      *)
(* aggregation of min, max or avg ends in an error, and no record is       *)
(* written for the window (no record carries NaN).                         *)
(***************************************************************************)
EmptySeriesRejected ==
    /\ \A r \in records : r.value # NaN
    /\ (n_queries > 0 /\ ts_data = NoSamples /\ Metric.aggregation \in Supported
        /\ pc \notin {"metric", "done"}) =>
         /\ pc = "aborted"
         /\ data = NoData

(***************************************************************************)
(* C15: once the record of the window [s, s + period) is written and the   *)
(* bookmark updated, the in-memory checkpoint of the metric is s + period; *)
(* at the loop head it is the start of the next window, which is the       *)
(* checkpoint the metric started with plus period times the number of      *)
(* records written for the metric in this run.                             *)
(***************************************************************************)
CheckpointIsWindowEnd ==
    /\ pc = "persist" =>
         Checkpoint(state, config, Metric.name) = data.date + period_seconds
    /\ pc = "loop" =>
         /\ Checkpoint(state, config, Metric.name) = iterator_unixtime
         /\ Checkpoint(state, config, Metric.name) =
                first_window + n_records * period_seconds

\* at the loop head after two windows, with a third one to process
LoopHeadAfterTwoWindows ==
    /\ pc = "loop"
    /\ n_records = 2
    /\ LoopCondition(iterator_unixtime, period_seconds, extraction_time)

(***************************************************************************)
(* C16: a range query is issued only when everything before it is done:    *)
(* the record of every earlier window of the metric is written, the        *)
(* bookmark is at the start of the window queried, the state is written    *)
(* if the count of records is a multiple of 100, and for the first query   *)
(* of a later metric the final state of the metric before it is written;   *)
(* a record written is of the window and the metric the loop is at.        *)
(***************************************************************************)
WritesBeforeNextQuery ==
    [][/\ n_queries' = n_queries + 1 =>
            /\ mi' = mi
            /\ data = NoData
            /\ n_records = n_queries
            /\ Checkpoint(state, config, Metric.name) = iterator_unixtime
            /\ (n_records > 0 /\ new_counts % PersistEvery = 0) =>
                 (persisted = state /\ unpersisted = 0)
            /\ (n_queries = 0 /\ mi > 1) =>
                 (persisted = state /\ unpersisted = 0 /\ n_persists = 0)
       /\ records' # records =>
            /\ n_records' = n_queries
            /\ \A r \in records' \ records :
                  r.metric = Metric.name /\ r.date = iterator_unixtime
      ]_vars

\* the first window of a second metric is queried, the first metric done
SecondMetricFirstQuery ==
    /\ pc = "write_record"
    /\ mi = 2
    /\ n_queries = 1
    /\ Cardinality(records) > PersistEvery

(***************************************************************************)
(* C17: the first window of a metric starts at the bookmark stored for     *)
(* the metric name in the state when there is one, whatever start_date     *)
(* is, and at start_date only when there is none.                          *)
(***************************************************************************)
BookmarkTakesPrecedence ==
    /\ (pc = "loop" /\ n_queries = 0) =>
         /\ iterator_unixtime = first_window
         /\ first_window =
              IF Metric.name \in DOMAIN state
              THEN strptime(state[Metric.name])
              ELSE strptime(config.start_date)
    /\ (pc = "write_record" /\ n_queries = 1) =>
         data.date =
              IF Metric.name \in DOMAIN input_state
              THEN strptime(input_state[Metric.name])
              ELSE strptime(config.start_date)

\* the first window of a second metric starts at its stored bookmark
FirstWindowAtStoredBookmark ==
    /\ pc = "write_record"
    /\ n_queries = 1
    /\ mi = 2
    /\ Metric.name \in DOMAIN input_state
    /\ data.date = strptime(input_state[Metric.name])
    /\ data.date # strptime(config.start_date)

(***************************************************************************)
(* C18: now is captured once per metric, at its start: it does not change  *)
(* while the metric is processed although the wall clock moves on, a       *)
(* later metric captures the time the wall clock shows then, and every     *)
(* record of the metric carries the captured value as its extraction time. *)
(***************************************************************************)
NowCapturedOncePerMetric ==
    /\ [](pc \notin {"sync", "metric"} =>
            \A r \in records :
                r.metric = Metric.name => r.time_extracted = extraction_time)
    /\ [][/\ pc # "metric" => extraction_time' = extraction_time
          /\ pc = "metric" =>
               (pc' = "metric" \/
                (extraction_time' = clock' /\ extraction_time' >= clock))
         ]_vars

\* a record is built after the wall clock has moved on during the metric
ClockMovedDuringMetric ==
    /\ pc = "write_record"
    /\ n_records >= 1
    /\ clock > extraction_time
    /\ data.time_extracted = extraction_time

(***************************************************************************)
(* C19: a step changes no bookmark but the one of the metric being         *)
(* processed and removes none; every write of the state writes the whole   *)
(* in-memory state; so the persisted bookmarks of the other metrics, and   *)
(* of names of the input state that the configuration does not have, are   *)
(* the same in every later state blob.                                     *)
(***************************************************************************)
OtherBookmarksUntouched ==
    /\ [][/\ \A n \in DOMAIN state :
                /\ n \in DOMAIN state'
                /\ n # Metric.name => state'[n] = state[n]
          /\ (blobs' # blobs \/ persisted' # persisted) =>
                /\ persisted' = state
                /\ blobs' = blobs \cup {state}
                /\ state' = state
          /\ \A n \in DOMAIN persisted :
                /\ n \in DOMAIN persisted'
                /\ n # Metric.name => persisted'[n] = persisted[n]
         ]_vars
    /\ [](\A b \in blobs : \A n \in DOMAIN input_state :
            n \notin ConfigNames => (n \in DOMAIN b /\ b[n] = input_state[n]))

\* the last blob has the bookmark of a name that is not configured
UnconfiguredBookmarkKept ==
    /\ pc = "done"
    /\ "cpu" \notin ConfigNames
    /\ "cpu" \in DOMAIN persisted
    /\ "mem" \in DOMAIN persisted
    /\ persisted["cpu"] = input_state["cpu"]

(***************************************************************************)
(* C20: with a source that always returns a series, the loop of every      *)
(* metric terminates: each window moves the iterator towards the captured  *)
(* now, which stays as it is; every loop reaches its final write of the    *)
(* state, and the run goes on to the next metric until it is done; the     *)
(* windows a finished loop has processed are those given by the checkpoint *)
(* it started with, the period and the captured now.                       *)
(***************************************************************************)
Terminates ==
    /\ [](LoopFinished =>
            /\ n_queries = Cardinality(WindowStarts(first_window, period_seconds,
                                                    extraction_time))
            /\ Starts(FinishedMetric.name) =
                  WindowStarts(first_window, period_seconds, extraction_time))
    /\ [][pc = "persist" =>
            /\ iterator_unixtime' > iterator_unixtime
            /\ extraction_time' = extraction_time
            /\ pc' = "loop"]_vars
    /\ \A i \in 1 .. 2 :
          (pc = "loop" /\ mi = i) ~>
             (pc = "done" \/ (pc = "metric" /\ mi = i + 1 /\ persisted = state))
    /\ <>(pc = "done")

\* a run over two metrics is done, the last loop after more than 100 windows
LongRunDone ==
    /\ pc = "done"
    /\ Len(config.metrics) = 2
    /\ n_queries > PersistEvery
    /\ persisted = state

====
